---- MODULE Spec2Model ----
(***************************************************************************)
(* Model of the streaming code-generation endpoint                         *)
(*   src/app/api/generate-ai-code-stream/route.ts  (POST)                  *)
(*                                                                         *)
(* A JavaScript string is a sequence of one-character strings, so that     *)
(* startsWith / includes / replace / trim / split / slice and the two      *)
(* package regular expressions are computed character by character.       *)
(***************************************************************************)
EXTENDS Integers, Sequences, FiniteSets, TLC

(***************************************************************************)
(* Bounds of the model                                                     *)
(***************************************************************************)
MaxChunks == 3      \* chunks one provider stream yields at most
NumRequests == 2    \* request slots of the process
MaxClock == 2       \* largest value Date.now() is let to reach

Requests == 1..NumRequests

(***************************************************************************)
(* Strings                                                                 *)
(***************************************************************************)
\* F applied to the value of e, which is computed once
Bind(e, F(_)) == CHOOSE v \in {F(x) : x \in {e}} : TRUE

MinOf(S) == Bind(S, LAMBDA T : CHOOSE x \in T : \A y \in T : x <= y)
MaxOf(S) == Bind(S, LAMBDA T : CHOOSE x \in T : \A y \in T : y <= x)

Rep(c, n) == [i \in 1..n |-> c]

\* JavaScript white space that String.prototype.trim removes
WhiteSpace == {" ", "\n", "\t", "\r"}

StartsWithAt(s, pat, i) ==
    /\ i >= 1
    /\ i + Len(pat) - 1 <= Len(s)
    /\ \A k \in 1..Len(pat) : s[i + k - 1] = pat[k]

StartsWith(s, pat) == StartsWithAt(s, pat, 1)

\* least index >= from at which pat occurs in s, 0 when there is none
IndexOf(s, pat, from) ==
    Bind({i \in from..(Len(s) - Len(pat) + 1) : StartsWithAt(s, pat, i)},
         LAMBDA I : IF I = {} THEN 0 ELSE MinOf(I))

Includes(s, pat) == IndexOf(s, pat, 1) # 0

\* String.prototype.replace with a string pattern: first occurrence only
Replace(s, pat, rep) ==
    Bind(IndexOf(s, pat, 1),
         LAMBDA i : IF i = 0 THEN s
                    ELSE SubSeq(s, 1, i - 1) \o rep
                           \o SubSeq(s, i + Len(pat), Len(s)))

Trim(str) ==
    Bind(str, LAMBDA s :
        Bind({i \in 1..Len(s) : s[i] \notin WhiteSpace},
             LAMBDA K : IF K = {} THEN <<>>
                        ELSE SubSeq(s, MinOf(K), MaxOf(K))))

\* s.slice(-n)
SliceLastCode(s, n) == IF Len(s) <= n THEN s ELSE SubSeq(s, Len(s) - n + 1, Len(s))

Contains(seq, x) == \E i \in 1..Len(seq) : seq[i] = x

(***************************************************************************)
(* The two tag patterns                                                    *)
(***************************************************************************)
PackageOpen == <<"<","p","a","c","k","a","g","e",">">>
PackageClose == <<"<","/","p","a","c","k","a","g","e",">">>
PackagesOpen == <<"<","p","a","c","k","a","g","e","s",">">>
PackagesClose == <<"<","/","p","a","c","k","a","g","e","s",">">>

\* /<package>([^<]+)<\/package>/ tried at index i: the index of the closing
\* tag when it matches there, 0 otherwise.  [^<]+ takes the whole run of
\* characters up to the next '<', which must open the closing tag.
PackageMatchAt(s, i) ==
    IF ~StartsWithAt(s, PackageOpen, i) THEN 0
    ELSE Bind(IndexOf(s, <<"<">>, i + Len(PackageOpen)),
              LAMBDA e : IF e > i + Len(PackageOpen)
                            /\ StartsWithAt(s, PackageClose, e)
                         THEN e ELSE 0)

\* /<packages>([\s\S]*?)<\/packages>/ tried at index i: the index of the
\* nearest closing tag when it matches there, 0 otherwise
PackagesMatchAt(s, i) ==
    IF ~StartsWithAt(s, PackagesOpen, i) THEN 0
    ELSE IndexOf(s, PackagesClose, i + Len(PackagesOpen))

\* one exec call: the leftmost index >= from at which the pattern matches, 0
\* when it matches nowhere
NextPackageMatch(s, from) ==
    Bind({i \in from..Len(s) : s[i] = "<" /\ PackageMatchAt(s, i) # 0},
         LAMBDA I : IF I = {} THEN 0 ELSE MinOf(I))

NextPackagesMatch(s, from) ==
    Bind({i \in from..Len(s) : s[i] = "<" /\ PackagesMatchAt(s, i) # 0},
         LAMBDA I : IF I = {} THEN 0 ELSE MinOf(I))

\* the exec loop of packageRegex (flag g): captures of the successive
\* leftmost matches, each search resuming at lastIndex
RECURSIVE PackageMatches(_, _)
PackageMatches(s, from) ==
    Bind(NextPackageMatch(s, from), LAMBDA i :
        IF i = 0 THEN <<>>
        ELSE Bind(PackageMatchAt(s, i), LAMBDA e :
                 <<SubSeq(s, i + Len(PackageOpen), e - 1)>>
                   \o PackageMatches(s, e + Len(PackageClose))))

RECURSIVE PackagesMatches(_, _)
PackagesMatches(s, from) ==
    Bind(NextPackagesMatch(s, from), LAMBDA i :
        IF i = 0 THEN <<>>
        ELSE Bind(PackagesMatchAt(s, i), LAMBDA e :
                 <<SubSeq(s, i + Len(PackagesOpen), e - 1)>>
                   \o PackagesMatches(s, e + Len(PackagesClose))))

\* String.prototype.split(/[\n,]+/)
Separators == {"\n", ","}

\* end of the run of separators that starts at i: the index after it
RunEnd(s, i) ==
    Bind({j \in (i + 1)..Len(s) : s[j] \notin Separators},
         LAMBDA J : IF J = {} THEN Len(s) + 1 ELSE MinOf(J))

RECURSIVE Split(_)
Split(str) ==
    Bind(str, LAMBDA s :
        Bind({i \in 1..Len(s) : s[i] \in Separators}, LAMBDA I :
            IF I = {} THEN <<s>>
            ELSE Bind(MinOf(I), LAMBDA i :
                     <<SubSeq(s, 1, i - 1)>>
                       \o Split(SubSeq(s, RunEnd(s, i), Len(s))))))

\* .map(pkg => pkg.trim())
TrimAll(parts) ==
    Bind(parts, LAMBDA ps : [k \in 1..Len(ps) |-> Trim(ps[k])])

\* .filter(pkg => pkg.length > 0)
NonEmpty(parts) == SelectSeq(parts, LAMBDA p : Len(p) > 0)

\* packagesContent.split(...).filter(length > 0), the tokens left untrimmed
PackagesListUntrimmed(body) == NonEmpty(Split(Trim(body)))

\* packagesContent.split(...).map(trim).filter(length > 0)
PackagesList(body) == NonEmpty(TrimAll(Split(Trim(body))))

\* names the first loop considers, in match order (trimmed, non-empty)
PackageNames(s) == NonEmpty(TrimAll(PackageMatches(s, 1)))

\* names the second loop considers, block after block
RECURSIVE BlockNames(_)
BlockNames(matches) ==
    Bind(matches, LAMBDA bodies :
        IF bodies = <<>> THEN <<>>
        ELSE PackagesList(Head(bodies)) \o BlockNames(Tail(bodies)))

\* all names one scan of searchText considers, in the order the two loops
\* reach them
ScanNames(searchText) ==
    Bind(searchText, LAMBDA s :
        PackageNames(s) \o BlockNames(PackagesMatches(s, 1)))

(***************************************************************************)
(* JavaScript values of the request body                                   *)
(***************************************************************************)
Undefined == [t |-> "undefined"]
Str(s) == [t |-> "string", v |-> s]
Num(n) == [t |-> "number", n |-> n]
Bool(b) == [t |-> "boolean", b |-> b]

\* ToBoolean
Truthy(x) ==
    CASE x.t = "undefined" -> FALSE
      [] x.t = "string" -> Len(x.v) > 0
      [] x.t = "number" -> x.n # 0
      [] x.t = "boolean" -> x.b
      [] x.t = "null" -> FALSE

\* a destructuring default applies to undefined only
OrDefault(x, d) == IF x.t = "undefined" THEN d ELSE x

AnthropicPrefix == <<"a","n","t","h","r","o","p","i","c","/">>
OpenaiPrefix == <<"o","p","e","n","a","i","/">>
CerebrasPrefix == <<"c","e","r","e","b","r","a","s","/">>
GptOss == <<"g","p","t","-","o","s","s">>
\* stands for 'cerebras/qwen-3-235b-a22b-instruct-2507'
DefaultModel == CerebrasPrefix \o <<"q","w","e","n">>

(***************************************************************************)
(* Model selection                                                         *)
(***************************************************************************)
\* the prefix is stripped for the gpt-oss family too
SelectModelStripped(model) ==
    IF StartsWith(model, AnthropicPrefix)
    THEN [client |-> "anthropic", name |-> Replace(model, AnthropicPrefix, <<>>)]
    ELSE IF StartsWith(model, OpenaiPrefix)
    THEN [client |-> IF Includes(model, GptOss) THEN "groq" ELSE "openai",
          name |-> Replace(model, OpenaiPrefix, <<>>)]
    ELSE IF StartsWith(model, CerebrasPrefix)
    THEN [client |-> "cerebras", name |-> Replace(model, CerebrasPrefix, <<>>)]
    ELSE [client |-> "cerebras", name |-> model]

SelectModel(model) ==
    IF StartsWith(model, AnthropicPrefix)
    THEN [client |-> "anthropic", name |-> Replace(model, AnthropicPrefix, <<>>)]
    ELSE IF StartsWith(model, OpenaiPrefix)
    THEN IF Includes(model, GptOss)
         THEN [client |-> "groq", name |-> model]
         ELSE [client |-> "openai", name |-> Replace(model, OpenaiPrefix, <<>>)]
    ELSE IF StartsWith(model, CerebrasPrefix)
    THEN [client |-> "cerebras", name |-> Replace(model, CerebrasPrefix, <<>>)]
    ELSE [client |-> "cerebras", name |-> model]

(***************************************************************************)
(* Inputs.  A scenario fixes the sets the environment draws from: the      *)
(* request bodies, the chunks the provider may yield, the conversation     *)
(* state the process starts with and the request slots that are used.      *)
(***************************************************************************)
Null == [t |-> "null"]

Prompt == <<"h","i">>
OtherPrompt == <<"y","o">>

Body(prompt, model, isEdit) ==
    [json |-> "object", prompt |-> prompt, model |-> model, isEdit |-> isEdit]

\* a body that is not JSON, and the JSON text null
InvalidBody == [json |-> "invalid"]
NullBody == [json |-> "null"]

GoodBody == Body(Str(Prompt), Undefined, Undefined)

BadPrompts == {Undefined, Str(<<>>), Num(0), Bool(FALSE)}

ModelIds ==
    { AnthropicPrefix \o <<"c","x">>,
      OpenaiPrefix \o <<"g","p","t","-","4">>,
      OpenaiPrefix \o GptOss \o <<"-","2","0","b">>,
      OpenaiPrefix \o <<"x","-">> \o GptOss,
      CerebrasPrefix \o <<"f","o","o">>,
      CerebrasPrefix,
      <<"u","n","k">>,
      GptOss,
      <<" ">> \o AnthropicPrefix \o <<"c","x">>,
      AnthropicPrefix \o OpenaiPrefix \o <<"y">>,
      CerebrasPrefix \o CerebrasPrefix \o <<"z">>,
      <<>> }

Tag(name) == PackageOpen \o name \o PackageClose
Block(body) == PackagesOpen \o body \o PackagesClose

LeftPad == <<"l","p">>
React == <<"r">>
Lodash == <<"l","o">>
Moment == <<"m">>

\* "react, lodash\nmoment" and a body with stray separators and a repeat
BlockBody == React \o <<","," ">> \o Lodash \o <<"\n">> \o Moment
MessyBody == <<",","\n"," ">> \o Moment \o <<" ",",",","," ","\n">> \o LeftPad
                 \o <<",">> \o Moment \o <<","," ">>

Filler == Rep("x", 60)

RelayVocab ==
    { <<>>,
      <<"<","p","a","c","k">>,
      <<"a","g","e",">">> \o LeftPad \o PackageClose \o <<" ","o","k">>,
      Tag(<<" ">> \o LeftPad \o <<"\n">>) \o Tag(React),
      Block(BlockBody) }

BlockVocab ==
    { Block(BlockBody), Block(MessyBody), Block(<<" ","\n">>),
      Tag(Lodash) \o <<"o","k">>, Filler, PackagesOpen \o <<"x">> }

\* chunks for the order of events: a tag split over two chunks, two tags
\* in one chunk, and a chunk that fills the rolling buffer
OrderVocab ==
    { <<"<","p","a","c","k">>,
      <<"a","g","e",">">> \o LeftPad \o PackageClose \o <<" ","o","k">>,
      Tag(<<" ">> \o LeftPad \o <<"\n">>) \o Tag(React),
      Filler \o Block(BlockBody) }

\* the tags whose splits are exercised: a short name with white space
\* around it, and a name long enough for the 100-character window to matter
SplitTags == << Tag(<<" ">> \o LeftPad \o <<" ">>), Tag(Rep("n", 95)) >>

SplitScenarios ==
    { [name |-> "split", tag |-> k, at |-> i] :
        k \in {1}, i \in 1..(Len(SplitTags[1]) - 1) }
    \cup { [name |-> "split", tag |-> k, at |-> i] :
        k \in {2}, i \in {1, 9, 50, 99, 100, 101, 110} }

Bodies(sc) ==
    CASE sc.name = "relay" ->
           {GoodBody, Body(Str(Prompt), Undefined, Bool(TRUE)), InvalidBody,
            NullBody, Body(Undefined, Undefined, Undefined)}
      [] sc.name = "select" ->
           {Body(Str(Prompt), Str(m), Undefined) : m \in ModelIds}
             \cup {GoodBody, Body(Str(Prompt), Num(7), Undefined),
                   Body(Str(Prompt), Null, Undefined)}
             \cup {Body(p, Str(DefaultModel), Undefined) : p \in BadPrompts}
             \cup {InvalidBody, NullBody}
      [] sc.name = "shared" -> {GoodBody, Body(Str(OtherPrompt), Undefined, Undefined)}
      [] OTHER -> {GoodBody, NullBody}

Vocab(sc) ==
    CASE sc.name = "relay" -> RelayVocab
      [] sc.name = "select" -> {<<"o","k">>, Tag(LeftPad)}
      [] sc.name = "block" -> BlockVocab
      [] sc.name = "order" -> OrderVocab
      [] sc.name = "shared" -> {Tag(LeftPad)}
      [] sc.name = "split" ->
           { SubSeq(SplitTags[sc.tag], 1, sc.at),
             SubSeq(SplitTags[sc.tag], sc.at + 1, Len(SplitTags[sc.tag])),
             Filler \o SubSeq(SplitTags[sc.tag], 1, sc.at),
             SubSeq(SplitTags[sc.tag], sc.at + 1, Len(SplitTags[sc.tag]))
               \o <<" ","o","k">> }
      [] OTHER -> {<<"o","k">>, Tag(LeftPad)}

EmptyConversation ==
    [t |-> "object", context |-> [t |-> "object", messages |-> <<>>],
     lastUpdated |-> 0]

\* an object put in place by other code, without a context
BrokenConversation == [t |-> "object", context |-> Undefined, lastUpdated |-> 0]

ConvStates(sc) ==
    CASE sc.name = "relay" -> {Null, EmptyConversation, BrokenConversation}
      [] sc.name = "split" -> {Null}
      [] sc.name = "shared" -> {EmptyConversation}
      [] OTHER -> {Null, EmptyConversation}

\* chunks one provider stream yields at most in a run of the scenario
ChunkLimit(sc) == IF sc.name = "shared" THEN 1 ELSE MaxChunks

\* the request slots in use: one request, or two requests in flight at once
Active(sc) == IF sc.name = "shared" THEN {1, 2} ELSE {1}

ProviderErrors == {"provider failed", "rate limited"}

\* what a rejected writer.write carries, what JSON.parse throws, ...
WriteError == "stream cancelled"
SyntaxErrorMsg == "unexpected token"
DestructureErrorMsg == "cannot destructure null"
NotAFunctionMsg == "model.startsWith is not a function"
ConstructErrorMsg == "client construction failed"
StreamTextErrorMsg == "streamText failed"
PushErrorMsg == "cannot read properties of undefined"

Envs == [construct : {"ok", "throws"}, streamText : {"ok", "throws"}]

(***************************************************************************)
(* State                                                                   *)
(***************************************************************************)
VARIABLES
    scenario,           \* the input sets of this run
    conversationState,  \* global.conversationState
    now,                \* the last value Date.now() returned
    pc,                 \* where each request is
    request,            \* the body each request carried
    response,           \* what POST returned
    invoked,            \* provider clients called, with the name passed
    streamTextCalls,    \* number of streamText calls
    thrownAt,           \* the step of POST that threw, "none" when none did
    chunks,             \* chunks result.textStream has yielded
    provider,           \* "open", "exhausted" or "failed"
    text,               \* the chunk being processed
    fullResponse,
    packagesToInstall,
    tagBuffer,
    pending,            \* names of the current scan not yet looked at
    events,             \* frames the writer accepted, in order
    writer,             \* "none", "open", "closed" or "errored"
    reader,             \* the client: "none", "reading", "stalled", "cancelled"
    caught,             \* message of the exception being handled
    closeCalled         \* writer.close() was called

vars == <<scenario, conversationState, now, pc, request, response, invoked,
          streamTextCalls, thrownAt, chunks, provider, text, fullResponse,
          packagesToInstall, tagBuffer, pending, events, writer, reader,
          caught, closeCalled>>

relayVars == <<chunks, provider, text, fullResponse, packagesToInstall,
               tagBuffer, pending>>

NoResponse == [kind |-> "none"]
\* NextResponse.json(body) without a status option
JsonResponseOk(status, error) == [kind |-> "json", status |-> 200, error |-> error]
JsonResponse(status, error) == [kind |-> "json", status |-> status, error |-> error]
\* new Response(stream.readable, {headers: {'Content-Type': 'text/event-stream', ...}})
SseResponse == [kind |-> "sse", contentType |-> "text/event-stream"]

InitWith(scenarios) ==
    /\ scenario \in scenarios
    /\ conversationState \in ConvStates(scenario)
    /\ now = 0
    /\ pc = [r \in Requests |-> "idle"]
    /\ request = [r \in Requests |-> Null]
    /\ response = [r \in Requests |-> NoResponse]
    /\ invoked = [r \in Requests |-> <<>>]
    /\ streamTextCalls = [r \in Requests |-> 0]
    /\ thrownAt = [r \in Requests |-> "none"]
    /\ chunks = [r \in Requests |-> <<>>]
    /\ provider = [r \in Requests |-> "open"]
    /\ text = [r \in Requests |-> <<>>]
    /\ fullResponse = [r \in Requests |-> <<>>]
    /\ packagesToInstall = [r \in Requests |-> <<>>]
    /\ tagBuffer = [r \in Requests |-> <<>>]
    /\ pending = [r \in Requests |-> <<>>]
    /\ events = [r \in Requests |-> <<>>]
    /\ writer = [r \in Requests |-> "none"]
    /\ reader = [r \in Requests |-> "none"]
    /\ caught = [r \in Requests |-> "none"]
    /\ closeCalled = [r \in Requests |-> FALSE]

(***************************************************************************)
(* POST up to its return statement                                         *)
(***************************************************************************)
\* the outer catch, answering with the fixed text whatever was thrown
CaughtGeneric(step, message, calls, streamCalls) ==
    [response |-> JsonResponse(500, "Failed to generate code"),
     invoked |-> calls, streamTextCalls |-> streamCalls, thrownAt |-> step]

\* the outer catch: a JSON body with status 500
Caught(step, message, calls, streamCalls) ==
    [response |-> JsonResponse(500, message), invoked |-> calls,
     streamTextCalls |-> streamCalls, thrownAt |-> step]

\* What one call of POST with body b returns, the provider clients it calls
\* and the streamText calls it makes; env says whether the client
\* constructor and streamText throw.
Handle(b, env) ==
    IF b.json = "invalid" THEN Caught("request.json", SyntaxErrorMsg, <<>>, 0)
    ELSE IF b.json = "null" THEN Caught("destructuring", DestructureErrorMsg, <<>>, 0)
    ELSE LET model == OrDefault(b.model, Str(DefaultModel))
         IN  IF ~Truthy(b.prompt)
             THEN [response |-> JsonResponse(400, "prompt is required"),
                   invoked |-> <<>>, streamTextCalls |-> 0, thrownAt |-> "none"]
             ELSE IF model.t # "string" THEN Caught("selection", NotAFunctionMsg, <<>>, 0)
             ELSE IF env.construct = "throws"
             THEN Caught("construction", ConstructErrorMsg, <<SelectModel(model.v)>>, 0)
             ELSE IF env.streamText = "throws"
             THEN Caught("streamText", StreamTextErrorMsg, <<SelectModel(model.v)>>, 1)
             ELSE [response |-> SseResponse,
                   invoked |-> <<SelectModel(model.v)>>,
                   streamTextCalls |-> 1, thrownAt |-> "none"]

POST(r) ==
    /\ pc[r] = "idle"
    /\ r \in Active(scenario)
    /\ \E b \in Bodies(scenario), env \in Envs :
         LET out == Handle(b, env)
             streams == out.response.kind = "sse"
         IN  /\ request' = [request EXCEPT ![r] = b]
             /\ response' = [response EXCEPT ![r] = out.response]
             /\ invoked' = [invoked EXCEPT ![r] = out.invoked]
             /\ streamTextCalls' = [streamTextCalls EXCEPT ![r] = out.streamTextCalls]
             /\ thrownAt' = [thrownAt EXCEPT ![r] = out.thrownAt]
             /\ writer' = [writer EXCEPT ![r] = IF streams THEN "open" ELSE "none"]
             /\ reader' = [reader EXCEPT ![r] = IF streams THEN "reading" ELSE "none"]
             /\ pc' = [pc EXCEPT ![r] = IF streams THEN "next" ELSE "responded"]
    /\ UNCHANGED <<scenario, conversationState, now, relayVars, events,
                   caught, closeCalled>>

PromptOf(r) == request[r].prompt.v
IsEdit(r) == Truthy(request[r].isEdit)

(***************************************************************************)
(* sendProgress: writer.write settles when the client reads, rejects when  *)
(* the client has cancelled the stream, and stays pending otherwise.       *)
(***************************************************************************)
WriteResolves(r) == writer[r] = "open" /\ reader[r] = "reading"
WriteRejects(r) == writer[r] = "errored"

\* the frame is put in front of the frames written so far
EmitInFront(r, event) == events' = [events EXCEPT ![r] = <<event>> \o @]

\* writer.write(frame): the frame follows the frames written so far
Emit(r, event) == events' = [events EXCEPT ![r] = Append(@, event)]

\* an exception inside the try block reaches the catch clause
Throw(r, message) ==
    /\ caught' = [caught EXCEPT ![r] = message]
    /\ pc' = [pc EXCEPT ![r] = "catch"]

(***************************************************************************)
(* The relay closure                                                       *)
(***************************************************************************)
\* tagBuffer.length limit of searchText.slice(-100)
BufferLimit == 100

SearchText(r) == tagBuffer[r] \o text[r]

\* the name is compared with the last one pushed only
IsNewSinceLast(packages, name) ==
    packages = <<>> \/ packages[Len(packages)] # name

\* !packagesToInstall.includes(name)
IsNew(packages, name) == ~Contains(packages, name)

\* the names a loop passes over without pushing
RECURSIVE SkipKnown(_, _)
SkipKnown(names, packages) ==
    IF names = <<>> THEN <<>>
    ELSE IF IsNew(packages, Head(names)) THEN names
    ELSE SkipKnown(Tail(names), packages)

\* tagBuffer = searchText.slice(-99)
NextTagBufferShort(searchText) == SliceLastCode(searchText, BufferLimit - 1)

\* tagBuffer = searchText
NextTagBufferWhole(searchText) == searchText

\* tagBuffer = searchText.slice(-101)
NextTagBufferLong(searchText) == SliceLastCode(searchText, BufferLimit + 1)

\* tagBuffer = searchText.slice(-100)
NextTagBuffer(searchText) == SliceLastCode(searchText, BufferLimit)

\* The two scanning loops, run from the names still to look at up to the
\* next await: the first new name is pushed and its event is awaited, or,
\* with no new name left, the buffer is updated and the next chunk awaited.
ScanOn(r, names) ==
    LET rest == SkipKnown(names, packagesToInstall[r])
    IN  IF rest = <<>>
        THEN /\ tagBuffer' = [tagBuffer EXCEPT ![r] = NextTagBuffer(SearchText(r))]
             /\ pending' = [pending EXCEPT ![r] = <<>>]
             /\ pc' = [pc EXCEPT ![r] = "next"]
             /\ UNCHANGED packagesToInstall
        ELSE /\ packagesToInstall' =
                   [packagesToInstall EXCEPT ![r] = Append(@, Head(rest))]
             /\ pending' = [pending EXCEPT ![r] = Tail(rest)]
             /\ pc' = [pc EXCEPT ![r] = "package"]
             /\ UNCHANGED tagBuffer

\* fullResponse = text
AccumulateLast(full, chunk) == chunk

\* fullResponse += text
Accumulate(full, chunk) == full \o chunk

\* for await: the provider yields a chunk
ProviderYield(r) ==
    /\ pc[r] = "next"
    /\ Len(chunks[r]) < ChunkLimit(scenario)
    /\ \E c \in Vocab(scenario) :
         /\ chunks' = [chunks EXCEPT ![r] = Append(@, c)]
         /\ text' = [text EXCEPT ![r] = c]
         /\ fullResponse' = [fullResponse EXCEPT ![r] = Accumulate(@, c)]
    /\ pc' = [pc EXCEPT ![r] = "text"]
    /\ UNCHANGED <<scenario, conversationState, now, request, response,
                   invoked, streamTextCalls, thrownAt, provider, packagesToInstall,
                   tagBuffer, pending, events, writer, reader, caught,
                   closeCalled>>

\* the provider's stream is exhausted: the loop ends
ProviderDone(r) ==
    /\ pc[r] = "next"
    /\ provider' = [provider EXCEPT ![r] = "exhausted"]
    /\ pc' = [pc EXCEPT ![r] = "complete"]
    /\ UNCHANGED <<scenario, conversationState, now, request, response,
                   invoked, streamTextCalls, thrownAt, chunks, text, fullResponse,
                   packagesToInstall, tagBuffer, pending, events, writer,
                   reader, caught, closeCalled>>

\* iterating the provider's stream throws
ProviderThrow(r) ==
    /\ pc[r] = "next"
    /\ provider' = [provider EXCEPT ![r] = "failed"]
    /\ \E m \in ProviderErrors : Throw(r, m)
    /\ UNCHANGED <<scenario, conversationState, now, request, response,
                   invoked, streamTextCalls, thrownAt, chunks, text, fullResponse,
                   packagesToInstall, tagBuffer, pending, events, writer,
                   reader, closeCalled>>

TextEvent(content) == [type |-> "text", content |-> content]
\* message: `Package detected: ${name}`
PackageEvent(name) == [type |-> "package", name |-> name, message |-> name]
\* the complete event with the packages listed last to first
CompleteEventReversed(full, packages) ==
    [type |-> "complete", response |-> full,
     packages |-> [k \in 1..Len(packages) |-> packages[Len(packages) + 1 - k]],
     message |-> <<Len(full), Len(packages)>>]

\* message: `Generated ${fullResponse.length} characters with ${packagesToInstall.length} packages`
CompleteEvent(full, packages) ==
    [type |-> "complete", response |-> full, packages |-> packages,
     message |-> <<Len(full), Len(packages)>>]
\* an error event with a fixed text
ErrorEventGeneric(message) == [type |-> "error", error |-> "Failed to generate code"]
ErrorEvent(message) == [type |-> "error", error |-> message]

\* await sendProgress({type: 'text', content: text}), then the first scan
SendText(r) ==
    /\ pc[r] = "text"
    /\ \/ /\ WriteResolves(r)
          /\ Emit(r, TextEvent(text[r]))
          /\ \E names \in {ScanNames(SearchText(r))} : ScanOn(r, names)
          /\ UNCHANGED caught
       \/ /\ WriteRejects(r)
          /\ Throw(r, WriteError)
          /\ UNCHANGED <<events, packagesToInstall, tagBuffer, pending>>
    /\ UNCHANGED <<scenario, conversationState, now, request, response,
                   invoked, streamTextCalls, thrownAt, chunks, provider, text,
                   fullResponse, writer, reader, closeCalled>>

\* await sendProgress({type: 'package', ...}) for the name just pushed, then
\* the scan goes on
SendPackage(r) ==
    /\ pc[r] = "package"
    /\ \/ /\ WriteResolves(r)
          /\ Emit(r, PackageEvent(packagesToInstall[r][Len(packagesToInstall[r])]))
          /\ ScanOn(r, pending[r])
          /\ UNCHANGED caught
       \/ /\ WriteRejects(r)
          /\ Throw(r, WriteError)
          /\ UNCHANGED <<events, packagesToInstall, tagBuffer, pending>>
    /\ UNCHANGED <<scenario, conversationState, now, request, response,
                   invoked, streamTextCalls, thrownAt, chunks, provider, text,
                   fullResponse, writer, reader, closeCalled>>

\* await sendProgress({type: 'complete', ...})
SendComplete(r) ==
    /\ pc[r] = "complete"
    /\ \/ /\ WriteResolves(r)
          /\ Emit(r, CompleteEvent(fullResponse[r], packagesToInstall[r]))
          /\ pc' = [pc EXCEPT ![r] = "update"]
          /\ UNCHANGED caught
       \/ /\ WriteRejects(r)
          /\ Throw(r, WriteError)
          /\ UNCHANGED events
    /\ UNCHANGED <<scenario, conversationState, now, request, response,
                   invoked, streamTextCalls, thrownAt, relayVars, writer, reader,
                   closeCalled>>

(***************************************************************************)
(* After the complete event: the conversation state, catch and finally     *)
(***************************************************************************)
\* The values the five Date.now() calls of the update can return: the first
\* is any time from the last one read on, and the clock ticks at most once
\* while the synchronous block runs.
ClockReads ==
    { [i \in 1..5 |-> IF k > 0 /\ i > k /\ t < MaxClock THEN t + 1 ELSE t] :
        t \in now..MaxClock, k \in 0..4 }

\* metadata.editType: 'generate' whatever isEdit is
UserMessageGenerate(r, id, timestamp) ==
    [id |-> id, role |-> "user", content |-> PromptOf(r),
     timestamp |-> timestamp,
     metadata |-> [editType |-> "generate",
                   addedPackages |-> packagesToInstall[r]]]

UserMessage(r, id, timestamp) ==
    [id |-> id, role |-> "user", content |-> PromptOf(r),
     timestamp |-> timestamp,
     metadata |-> [editType |-> IF IsEdit(r) THEN "edit" ELSE "generate",
                   addedPackages |-> packagesToInstall[r]]]

AssistantMessage(r, id, timestamp) ==
    [id |-> id, role |-> "assistant", content |-> fullResponse[r],
     timestamp |-> timestamp,
     metadata |-> [addedPackages |-> packagesToInstall[r]]]

\* the update with an await between the two pushes: the user message is
\* appended in one step and the assistant message in a later one
UpdateConversationAwaited(r) ==
    /\ pc[r] = "update"
    /\ IF ~(conversationState.t = "object")
       THEN /\ pc' = [pc EXCEPT ![r] = "finally"]
            /\ UNCHANGED <<conversationState, now, caught, pending>>
       ELSE IF conversationState.context.t # "object"
       THEN /\ Throw(r, PushErrorMsg)
            /\ UNCHANGED <<conversationState, now, pending>>
       ELSE \E t \in ClockReads :
              IF pending[r] = <<>>
              THEN /\ conversationState' =
                        [conversationState EXCEPT
                           !.context.messages = Append(@, UserMessage(r, t[1], t[2]))]
                   /\ now' = t[2]
                   /\ pending' = [pending EXCEPT ![r] = <<PromptOf(r)>>]
                   /\ UNCHANGED <<pc, caught>>
              ELSE /\ conversationState' =
                        [conversationState EXCEPT
                           !.context.messages =
                               Append(@, AssistantMessage(r, t[3] + 1, t[4])),
                           !.lastUpdated = t[5]]
                   /\ now' = t[5]
                   /\ pending' = [pending EXCEPT ![r] = <<>>]
                   /\ pc' = [pc EXCEPT ![r] = "finally"]
                   /\ UNCHANGED caught
    /\ UNCHANGED <<scenario, request, response, invoked, streamTextCalls, thrownAt,
                   chunks, provider, text, fullResponse, packagesToInstall,
                   tagBuffer, events, writer, reader, closeCalled>>

\* the update with the object created when there is none:
\* global.conversationState ??= {context: {messages: []}, lastUpdated: 0}
UpdateConversationOrCreate(r) ==
    /\ pc[r] = "update"
    /\ \E t \in ClockReads, conversation \in
             {IF conversationState.t = "object" THEN conversationState
              ELSE EmptyConversation} :
         IF conversation.context.t # "object"
         THEN /\ Throw(r, PushErrorMsg)
              /\ UNCHANGED <<conversationState, now>>
         ELSE /\ conversationState' =
                   [conversation EXCEPT
                      !.context.messages =
                          @ \o << UserMessage(r, t[1], t[2]),
                                  AssistantMessage(r, t[3] + 1, t[4]) >>,
                      !.lastUpdated = t[5]]
              /\ now' = t[5]
              /\ pc' = [pc EXCEPT ![r] = "finally"]
              /\ UNCHANGED caught
    /\ UNCHANGED <<scenario, request, response, invoked, streamTextCalls, thrownAt,
                   relayVars, events, writer, reader, closeCalled>>

\* if (global.conversationState) { push; push; lastUpdated = Date.now() }
UpdateConversation(r) ==
    /\ pc[r] = "update"
    /\ IF ~(conversationState.t = "object")
       THEN /\ pc' = [pc EXCEPT ![r] = "finally"]
            /\ UNCHANGED <<conversationState, now, caught>>
       ELSE IF conversationState.context.t # "object"
       THEN /\ Throw(r, PushErrorMsg)
            /\ UNCHANGED <<conversationState, now>>
       ELSE \E t \in ClockReads :
              /\ conversationState' =
                   [conversationState EXCEPT
                      !.context.messages =
                          @ \o << UserMessage(r, t[1], t[2]),
                                  AssistantMessage(r, t[3] + 1, t[4]) >>,
                      !.lastUpdated = t[5]]
              /\ now' = t[5]
              /\ pc' = [pc EXCEPT ![r] = "finally"]
              /\ UNCHANGED caught
    /\ UNCHANGED <<scenario, request, response, invoked, streamTextCalls, thrownAt,
                   relayVars, events, writer, reader, closeCalled>>

\* writer.close() at the end of the try and of the catch block instead of in
\* finally: an exception that leaves the catch clause skips it
SendErrorNoFinally(r) ==
    /\ pc[r] = "catch"
    /\ \/ /\ WriteResolves(r)
          /\ Emit(r, ErrorEvent(caught[r]))
          /\ pc' = [pc EXCEPT ![r] = "finally"]
       \/ /\ WriteRejects(r)
          /\ pc' = [pc EXCEPT ![r] = "done"]
          /\ UNCHANGED events
    /\ UNCHANGED <<scenario, conversationState, now, request, response,
                   invoked, streamTextCalls, thrownAt, relayVars, writer,
                   reader, caught, closeCalled>>

\* catch: await sendProgress({type: 'error', error: error.message}); when
\* this write rejects the exception leaves the catch clause, and finally
\* runs all the same
SendError(r) ==
    /\ pc[r] = "catch"
    /\ \/ /\ WriteResolves(r)
          /\ Emit(r, ErrorEvent(caught[r]))
       \/ /\ WriteRejects(r)
          /\ UNCHANGED events
    /\ pc' = [pc EXCEPT ![r] = "finally"]
    /\ UNCHANGED <<scenario, conversationState, now, request, response,
                   invoked, streamTextCalls, thrownAt, relayVars, writer, reader,
                   caught, closeCalled>>

\* finally: await writer.close(); close() of an errored writer rejects and
\* leaves it errored
Close(r) ==
    /\ pc[r] = "finally"
    /\ closeCalled' = [closeCalled EXCEPT ![r] = TRUE]
    /\ writer' = [writer EXCEPT ![r] = IF @ = "open" THEN "closed" ELSE @]
    /\ pc' = [pc EXCEPT ![r] = "done"]
    /\ UNCHANGED <<scenario, conversationState, now, request, response,
                   invoked, streamTextCalls, thrownAt, relayVars, events, reader,
                   caught>>

(***************************************************************************)
(* The client of the event stream                                          *)
(***************************************************************************)
\* the client stops reading the response body without closing it
ClientStall(r) ==
    /\ reader[r] = "reading"
    /\ writer[r] = "open"
    /\ reader' = [reader EXCEPT ![r] = "stalled"]
    /\ UNCHANGED <<scenario, conversationState, now, pc, request, response,
                   invoked, streamTextCalls, thrownAt, relayVars, events, writer,
                   caught, closeCalled>>

\* the client disconnects: the readable side is cancelled, which errors the
\* writable side of the TransformStream
ClientCancel(r) ==
    /\ reader[r] \in {"reading", "stalled"}
    /\ writer[r] = "open"
    /\ reader' = [reader EXCEPT ![r] = "cancelled"]
    /\ writer' = [writer EXCEPT ![r] = "errored"]
    /\ UNCHANGED <<scenario, conversationState, now, pc, request, response,
                   invoked, streamTextCalls, thrownAt, relayVars, events, caught,
                   closeCalled>>

(***************************************************************************)
(* Specifications                                                          *)
(***************************************************************************)
\* the steps of the relay closure of request r
Relay(r) ==
    \/ ProviderYield(r)
    \/ ProviderDone(r)
    \/ ProviderThrow(r)
    \/ SendText(r)
    \/ SendPackage(r)
    \/ SendComplete(r)
    \/ UpdateConversation(r)
    \/ SendError(r)
    \/ Close(r)

Next ==
    \E r \in Requests :
        \/ POST(r)
        \/ Relay(r)
        \/ ClientStall(r)
        \/ ClientCancel(r)

Init == InitWith({[name |-> "relay"]})
Spec == Init /\ [][Next]_vars

InitSelect == InitWith({[name |-> "select"]})
SpecSelect == InitSelect /\ [][Next]_vars

InitSplit == InitWith(SplitScenarios)
SpecSplit == InitSplit /\ [][Next]_vars

InitBlock == InitWith({[name |-> "block"]})
SpecBlock == InitBlock /\ [][Next]_vars

\* two requests of one process, run by the same event loop, and one
\* conversation state
InitShared == InitWith({[name |-> "shared"]})
FairShared == InitShared /\ [][Next]_vars /\ \A r \in Requests : WF_vars(Relay(r))

InitOrder == InitWith({[name |-> "order"]})
SpecOrder == InitOrder /\ [][Next]_vars

\* the event loop runs every continuation that is ready, and the provider's
\* stream settles every read
InitFair == InitWith({[name |-> "fair"]})
FairSpec == InitFair /\ [][Next]_vars /\ \A r \in Requests : WF_vars(Relay(r))

(***************************************************************************)
(* Reading the event stream                                                *)
(***************************************************************************)
OfType(evs, ty) == {i \in 1..Len(evs) : evs[i].type = ty}

\* contents of the text events of evs, concatenated in order
RECURSIVE TextOf(_)
TextOf(evs) ==
    IF evs = <<>> THEN <<>>
    ELSE IF Head(evs).type = "text" THEN Head(evs).content \o TextOf(Tail(evs))
    ELSE TextOf(Tail(evs))

\* names of the package events of evs, in order
RECURSIVE NamesOf(_)
NamesOf(evs) ==
    IF evs = <<>> THEN <<>>
    ELSE IF Head(evs).type = "package" THEN <<Head(evs).name>> \o NamesOf(Tail(evs))
    ELSE NamesOf(Tail(evs))

\* index of the j-th text event of evs, 0 when there are fewer
NthText(evs, j) ==
    LET T == OfType(evs, "text")
    IN  IF Cardinality(T) < j THEN 0
        ELSE CHOOSE i \in T : Cardinality({k \in T : k <= i}) = j

\* the events that follow the j-th text event up to the next event that is
\* not a package event: what the scan of chunk j emitted
WindowOf(evs, j) ==
    LET a == NthText(evs, j)
        E == {i \in (a + 1)..Len(evs) : evs[i].type # "package"}
        b == IF E = {} THEN Len(evs) + 1 ELSE MinOf(E)
    IN  IF a = 0 THEN <<>> ELSE SubSeq(evs, a + 1, b - 1)

\* the loop body has run to its end for chunk j
Processed(r, j) ==
    /\ j >= 1
    /\ \/ j < Len(chunks[r])
       \/ j = Len(chunks[r]) /\ (pc[r] = "next" \/ provider[r] # "open")

NoDuplicates(seq) == \A i, j \in 1..Len(seq) : seq[i] = seq[j] => i = j

IsPrefix(a, b) == Len(a) <= Len(b) /\ SubSeq(b, 1, Len(a)) = a

(***************************************************************************)
(* C1: the response of the complete event is the concatenation, in order,  *)
(* of the contents of the text events emitted before it, for any chunks    *)
(* (none, empty ones).                                                     *)
(***************************************************************************)
C1_ResponseIsConcatenation ==
    \A r \in Requests : \A i \in OfType(events[r], "complete") :
        events[r][i].response = TextOf(SubSeq(events[r], 1, i - 1))

\* a complete event after an empty chunk and two chunks with text
C1_Witness ==
    \E r \in Requests :
        /\ OfType(events[r], "complete") # {}
        /\ Len(chunks[r]) = 3
        /\ chunks[r][2] = <<>>
        /\ chunks[r][1] # <<>> /\ chunks[r][3] # <<>>
        /\ chunks[r][1] # chunks[r][3]

(***************************************************************************)
(* C2: for every package name at most one package event is emitted; the    *)
(* package set holds trimmed, non-empty names, none twice, and only grows. *)
(***************************************************************************)
C2_Unique ==
    \A r \in Requests :
        /\ NoDuplicates(NamesOf(events[r]))
        /\ NoDuplicates(packagesToInstall[r])
        /\ \A k \in 1..Len(packagesToInstall[r]) :
              /\ packagesToInstall[r][k] # <<>>
              /\ Trim(packagesToInstall[r][k]) = packagesToInstall[r][k]

C2_Grows ==
    \A r \in Requests :
        /\ IsPrefix(packagesToInstall[r], packagesToInstall'[r])
        /\ IsPrefix(events[r], events'[r])

C2_OnePackageEventPerName == []C2_Unique /\ [][C2_Grows]_vars

\* the tag for one name came split over two chunks, stayed in the rolling
\* buffer while the third chunk was scanned, and came again in that chunk
C2_Witness ==
    \E r \in Requests :
        /\ Len(chunks[r]) = 3 /\ Processed(r, 3)
        /\ Len(PackageNames(chunks[r][1] \o chunks[r][2])) = 1
        /\ Len(PackageNames(chunks[r][3])) = 2
        /\ PackageNames(chunks[r][3])[1] = PackageNames(chunks[r][1] \o chunks[r][2])[1]
        /\ Len(tagBuffer[r]) > Len(chunks[r][3])
        /\ Len(NamesOf(events[r])) = 2

(***************************************************************************)
(* C3: a tag <package>NAME</package> split over two consecutive chunks,    *)
(* at most 100 of its characters in the earlier one, is detected: once the *)
(* later chunk is processed, a package event with the trimmed NAME was     *)
(* emitted by the scan of that chunk, or the name was in the set before.   *)
(***************************************************************************)
\* the NAME of a tag, trimmed
C3_NameOfTag(tag) ==
    Trim(SubSeq(tag, Len(PackageOpen) + 1, Len(tag) - Len(PackageClose)))

\* chunks j-1 and j of request r carry the tag, split after its i-th character
C3_SplitAt(r, j, tag, i) ==
    LET c1 == chunks[r][j - 1]
        c2 == chunks[r][j]
    IN  /\ i <= Len(c1)
        /\ Len(tag) - i <= Len(c2)
        /\ c1[Len(c1)] = tag[i]
        /\ c2[1] = tag[i + 1]
        /\ \A k \in 1..i : c1[Len(c1) - i + k] = tag[k]
        /\ \A k \in (i + 1)..Len(tag) : c2[k - i] = tag[k]

C3_SplitTagDetected ==
    \A r \in Requests : \A j \in 2..Len(chunks[r]) :
        Processed(r, j) =>
            \A k \in 1..Len(SplitTags) :
                \A i \in 1..(Len(SplitTags[k]) - 1) :
                    (i <= BufferLimit /\ C3_SplitAt(r, j, SplitTags[k], i)) =>
                        \/ Contains(NamesOf(WindowOf(events[r], j)),
                                    C3_NameOfTag(SplitTags[k]))
                        \/ Contains(NamesOf(SubSeq(events[r], 1, NthText(events[r], j))),
                                    C3_NameOfTag(SplitTags[k]))

\* the long tag, 100 characters of it at the end of a longer chunk, the rest
\* at the start of the next: the scan of that chunk emitted its name
C3_Witness ==
    \E r \in Requests :
        /\ Len(chunks[r]) = 2 /\ Processed(r, 2)
        /\ C3_SplitAt(r, 2, SplitTags[2], BufferLimit)
        /\ Len(chunks[r][1]) > BufferLimit
        /\ NamesOf(WindowOf(events[r], 2)) = <<C3_NameOfTag(SplitTags[2])>>

(***************************************************************************)
(* C4, as amended: for a block <packages>BODY</packages> that the pattern  *)
(* matches (no <packages> before it in the scanned text is left without    *)
(* its </packages>), once its chunk is processed the comma- and newline-   *)
(* free pieces of BODY, trimmed, the empty ones dropped, each got one      *)
(* package event unless the name was in the package set already, in the    *)
(* order they stand in BODY; an echoed block adds no event.                *)
(***************************************************************************)
C4_Delimiters == {",", "\n"}

\* trimmed non-empty pieces of body from index a on, in order
RECURSIVE C4_Pieces(_, _)
C4_Pieces(body, a) ==
    IF a > Len(body) THEN <<>>
    ELSE IF body[a] \in C4_Delimiters THEN C4_Pieces(body, a + 1)
    ELSE LET D == {i \in a..Len(body) : body[i] \in C4_Delimiters}
             b == IF D = {} THEN Len(body) + 1 ELSE MinOf(D)
             piece == Trim(SubSeq(body, a, b - 1))
         IN  (IF piece = <<>> THEN <<>> ELSE <<piece>>) \o C4_Pieces(body, b)

\* the names of a list that are neither known nor earlier in the list
RECURSIVE C4_Fresh(_, _)
C4_Fresh(names, known) ==
    IF names = <<>> THEN <<>>
    ELSE IF Contains(known, Head(names)) THEN C4_Fresh(Tail(names), known)
    ELSE <<Head(names)>> \o C4_Fresh(Tail(names), Append(known, Head(names)))

\* the chunk is one block whose body holds no tag
C4_IsBlock(c) ==
    /\ Len(c) >= Len(PackagesOpen) + Len(PackagesClose)
    /\ StartsWith(c, PackagesOpen)
    /\ StartsWithAt(c, PackagesClose, Len(c) - Len(PackagesClose) + 1)
    /\ \A i \in (Len(PackagesOpen) + 1)..(Len(c) - Len(PackagesClose)) : c[i] # "<"

C4_BodyOf(c) == SubSeq(c, Len(PackagesOpen) + 1, Len(c) - Len(PackagesClose))

RECURSIVE C4_TextBefore(_, _)
C4_TextBefore(cs, j) == IF j <= 1 THEN <<>> ELSE C4_TextBefore(cs, j - 1) \o cs[j - 1]

\* no <packages> of the earlier text is left without its </packages>, so the
\* pattern matches the block itself
C4_NothingOpen(t) ==
    \A i \in 1..Len(t) :
        StartsWithAt(t, PackagesOpen, i) => IndexOf(t, PackagesClose, i) # 0

C4_BlockNamesEmittedInOrder ==
    \A r \in Requests : \A j \in 1..Len(chunks[r]) :
        ( /\ Processed(r, j)
          /\ C4_IsBlock(chunks[r][j])
          /\ C4_NothingOpen(C4_TextBefore(chunks[r], j)) )
        => NamesOf(WindowOf(events[r], j))
             = C4_Fresh(C4_Pieces(C4_BodyOf(chunks[r][j]), 1),
                        NamesOf(SubSeq(events[r], 1, NthText(events[r], j))))

\* C4 as stated, for every block contained in the scanned text: it fails for
\* a block that follows an unclosed <packages>, which the non-greedy pattern
\* takes into the body it matches.
C4_AnyBlockNamesEmitted ==
    \A r \in Requests : \A j \in 1..Len(chunks[r]) :
        (Processed(r, j) /\ C4_IsBlock(chunks[r][j]))
        => NamesOf(WindowOf(events[r], j))
             = C4_Fresh(C4_Pieces(C4_BodyOf(chunks[r][j]), 1),
                        NamesOf(SubSeq(events[r], 1, NthText(events[r], j))))

\* "react, lodash\nmoment", then a block with stray separators that repeats
\* a name and adds one, then the first block again
C4_Witness ==
    \E r \in Requests :
        /\ chunks[r] = <<Block(BlockBody), Block(MessyBody), Block(BlockBody)>>
        /\ Processed(r, 3)
        /\ NamesOf(WindowOf(events[r], 1)) = <<React, Lodash, Moment>>
        /\ NamesOf(WindowOf(events[r], 2)) = <<LeftPad>>
        /\ NamesOf(WindowOf(events[r], 3)) = <<>>

(***************************************************************************)
(* C5: a request whose body parses and whose prompt is absent or falsy is  *)
(* answered with a JSON error of status 400; no provider client is         *)
(* selected, streamText is not called, no event is emitted and the         *)
(* conversation state is as it was.                                        *)
(***************************************************************************)
C5_PromptMissing(r) ==
    /\ pc[r] # "idle"
    /\ \/ request[r].json = "null"
       \/ request[r].json = "object" /\ ~Truthy(request[r].prompt)

C5_MissingPromptIs400 ==
    \A r \in Requests :
        C5_PromptMissing(r) =>
            /\ response[r].kind = "json" /\ response[r].status = 400
            /\ invoked[r] = <<>>
            /\ streamTextCalls[r] = 0
            /\ events[r] = <<>>
            /\ conversationState \in ConvStates(scenario)

(***************************************************************************)
(* C6: the identifier is routed by the prefix rules in order: anthropic/N  *)
(* to anthropic with N; openai/N with gpt-oss in N to groq with the whole  *)
(* identifier; other openai/N to openai with N; cerebras/N to cerebras     *)
(* with N; anything else to cerebras with the identifier as it is.  A      *)
(* request that reaches the selection calls exactly one client, no request *)
(* calls more than one.                                                    *)
(***************************************************************************)
C6_HasPrefix(m, p) == Len(m) >= Len(p) /\ SubSeq(m, 1, Len(p)) = p
C6_Rest(m, p) == SubSeq(m, Len(p) + 1, Len(m))
C6_Mentions(n, w) ==
    \E i \in 1..(Len(n) - Len(w) + 1) : SubSeq(n, i, i + Len(w) - 1) = w

C6_Route(m) ==
    CASE C6_HasPrefix(m, AnthropicPrefix) ->
           [client |-> "anthropic", name |-> C6_Rest(m, AnthropicPrefix)]
      [] C6_HasPrefix(m, OpenaiPrefix)
           /\ C6_Mentions(C6_Rest(m, OpenaiPrefix), GptOss) ->
           [client |-> "groq", name |-> m]
      [] C6_HasPrefix(m, OpenaiPrefix)
           /\ ~C6_Mentions(C6_Rest(m, OpenaiPrefix), GptOss) ->
           [client |-> "openai", name |-> C6_Rest(m, OpenaiPrefix)]
      [] C6_HasPrefix(m, CerebrasPrefix) ->
           [client |-> "cerebras", name |-> C6_Rest(m, CerebrasPrefix)]
      [] OTHER -> [client |-> "cerebras", name |-> m]

\* the request carried a prompt and a model identifier that is a string
C6_ReachesSelection(r) ==
    /\ pc[r] # "idle"
    /\ request[r].json = "object"
    /\ Truthy(request[r].prompt)
    /\ OrDefault(request[r].model, Str(DefaultModel)).t = "string"

C6_RoutedByPrefix ==
    \A r \in Requests :
        /\ Len(invoked[r]) <= 1
        /\ C6_ReachesSelection(r) =>
             invoked[r] = <<C6_Route(OrDefault(request[r].model, Str(DefaultModel)).v)>>

\* an openai/ identifier with gpt-oss further in was passed whole to groq,
\* and the stream was opened
C6_Witness ==
    \E r \in Requests :
        /\ C6_ReachesSelection(r)
        /\ request[r].model = Str(OpenaiPrefix \o <<"x","-">> \o GptOss)
        /\ invoked[r] = <<[client |-> "groq", name |-> request[r].model.v]>>
        /\ response[r].kind = "sse"

(***************************************************************************)
(* C7, as amended: when iterating the provider's stream fails, at most one *)
(* error event is emitted; exactly one, unless the client has cancelled    *)
(* the stream, and then none.  An emitted error event carries the error's  *)
(* message and is the last event, no complete event is emitted, and the    *)
(* events emitted before stay as they are, in front of it.                 *)
(***************************************************************************)
C7_AfterFailure ==
    \A r \in Requests :
        provider[r] = "failed" =>
            /\ OfType(events[r], "complete") = {}
            /\ Cardinality(OfType(events[r], "error")) <= 1
            /\ \A i \in OfType(events[r], "error") :
                  /\ i = Len(events[r])
                  /\ events[r][i].error = caught[r]
                  /\ caught[r] \in ProviderErrors
            /\ (pc[r] \in {"finally", "done"} /\ writer[r] # "errored")
                  => Cardinality(OfType(events[r], "error")) = 1

C7_Step ==
    \A r \in Requests :
        /\ IsPrefix(events[r], events'[r])
        /\ (pc[r] = "catch" /\ writer[r] = "errored" /\ pc'[r] # "catch")
              => events'[r] = events[r]

C7_AtMostOneErrorEvent == []C7_AfterFailure /\ [][C7_Step]_vars

\* C7 as stated: whenever the iteration failed, the finished stream holds
\* exactly one error event.  It fails when the client had cancelled.
C7_ExactlyOneErrorEvent ==
    \A r \in Requests :
        (provider[r] = "failed" /\ pc[r] = "done") =>
            /\ Cardinality(OfType(events[r], "error")) = 1
            /\ events[r][Len(events[r])] = ErrorEvent(caught[r])
            /\ OfType(events[r], "complete") = {}

\* the provider failed after two chunks and a package event; the stream ended
\* with the error event
C7_Witness ==
    \E r \in Requests :
        /\ provider[r] = "failed" /\ pc[r] = "done"
        /\ Len(chunks[r]) = 2
        /\ Len(events[r]) >= 4
        /\ OfType(events[r], "package") # {}
        /\ OfType(events[r], "error") = {Len(events[r])}
        /\ events[r][Len(events[r])].error \in ProviderErrors

(***************************************************************************)
(* C8, as amended: when the call of streamText itself throws, POST answers *)
(* with a JSON error of status 500 carrying the error's message; no event  *)
(* stream is opened and no event is emitted.                               *)
(***************************************************************************)
C8_InvocationFailureIsJson500 ==
    \A r \in Requests :
        thrownAt[r] = "streamText" =>
            /\ response[r] = JsonResponse(500, StreamTextErrorMsg)
            /\ streamTextCalls[r] = 1
            /\ events[r] = <<>>
            /\ writer[r] = "none"
            /\ pc[r] = "responded"

\* C8 as stated: the failure of the invocation is answered with an event
\* stream
C8_InvocationFailureInBand ==
    \A r \in Requests :
        thrownAt[r] = "streamText" => response[r] = SseResponse

C8_Witness ==
    \E r \in Requests :
        /\ thrownAt[r] = "streamText"
        /\ Len(invoked[r]) = 1
        /\ response[r].kind = "json"

(***************************************************************************)
(* C9: an exception before POST returns the stream gives a JSON error of   *)
(* status 500 and no stream; a request gets a JSON error (400 or 500) or   *)
(* an event stream, never both; with a JSON error no event is emitted and  *)
(* the conversation state is as it was.                                    *)
(***************************************************************************)
C9_JsonOrStream ==
    \A r \in Requests :
        /\ thrownAt[r] # "none" =>
              response[r].kind = "json" /\ response[r].status = 500
        /\ pc[r] # "idle" => response[r].kind \in {"json", "sse"}
        /\ response[r].kind = "json" =>
              /\ response[r].status \in {400, 500}
              /\ events[r] = <<>>
              /\ writer[r] = "none" /\ reader[r] = "none"
              /\ pc[r] = "responded"
              /\ conversationState \in ConvStates(scenario)
        /\ response[r].kind = "sse" => thrownAt[r] = "none" /\ writer[r] # "none"
        /\ events[r] # <<>> => response[r].kind = "sse"

\* the call of the provider client threw
C9_Witness ==
    \E r \in Requests :
        /\ thrownAt[r] = "construction"
        /\ response[r] = JsonResponse(500, ConstructErrorMsg)

(***************************************************************************)
(* C10, as amended: once the event stream is returned, writer.close() is   *)
(* eventually called, also when a write is rejected and when the write of  *)
(* the error event is rejected, unless a write stays pending for ever      *)
(* because the client stopped reading without cancelling.  After the call  *)
(* the writer is closed, or errored when the client had cancelled.         *)
(***************************************************************************)
C10_Blocked(r) ==
    /\ reader[r] = "stalled"
    /\ writer[r] = "open"
    /\ pc[r] \in {"text", "package", "complete", "catch"}

C10_CloseCalledUnlessBlocked ==
    /\ \A r \in Requests :
          ([]<>(~C10_Blocked(r)))
             => ((response[r].kind = "sse") ~> closeCalled[r])
    /\ [](\A r \in Requests :
            closeCalled[r] => (pc[r] = "done" /\ writer[r] \in {"closed", "errored"}))

\* C10 as stated, with a writer on which close() was called counted as
\* closed: it is eventually closed on every path, a write that stays pending
\* included
C10_WriterEventuallyClosed ==
    \A r \in Requests : (response[r].kind = "sse") ~> closeCalled[r]

\* the provider failed, the write of the error event was rejected, and
\* close() was called all the same
C10_Witness ==
    \E r \in Requests :
        /\ provider[r] = "failed"
        /\ OfType(events[r], "error") = {}
        /\ closeCalled[r]
        /\ writer[r] = "errored"

(***************************************************************************)
(* C11, as amended: the text events are, in order, the chunks read from    *)
(* the provider, one for each chunk whose write the stream accepted, which *)
(* is every chunk read except the last one when its write is pending or    *)
(* was rejected; the package events found while scanning chunk i follow    *)
(* the text event of chunk i and precede the text event of chunk i+1,      *)
(* which is written only after the buffer was updated for chunk i; nothing *)
(* follows a complete or an error event but an error event.                *)
(***************************************************************************)
\* the text of chunks 1..j
RECURSIVE C11_TextUpTo(_, _)
C11_TextUpTo(cs, j) == IF j = 0 THEN <<>> ELSE C11_TextUpTo(cs, j - 1) \o cs[j]

\* what the rolling buffer holds once chunks 1..j were scanned
C11_BufferAfter(cs, j) ==
    LET t == C11_TextUpTo(cs, j)
    IN  IF Len(t) <= BufferLimit THEN t
        ELSE [k \in 1..BufferLimit |-> t[Len(t) - BufferLimit + k]]

\* the names the scan of chunk j emits when it runs to its end
C11_NamesFound(r, j) ==
    C4_Fresh(ScanNames(C11_BufferAfter(chunks[r], j - 1) \o chunks[r][j]),
             NamesOf(SubSeq(events[r], 1, NthText(events[r], j))))

C11_TextWritten(r) == Cardinality(OfType(events[r], "text"))

C11_InChunkOrder(r) ==
    \E n \in {C11_TextWritten(r)}, last \in {Len(chunks[r])} :
        /\ \/ n = last
           \/ /\ n = last - 1
              /\ \/ pc[r] = "text"
                 \/ caught[r] = WriteError /\ writer[r] = "errored"
        /\ \A j \in 1..n :
              /\ events[r][NthText(events[r], j)].content = chunks[r][j]
              /\ Bind(C11_NamesFound(r, j), LAMBDA found :
                    Bind(NamesOf(WindowOf(events[r], j)), LAMBDA written :
                        IF Processed(r, j) THEN written = found
                        ELSE IsPrefix(written, found)))
              /\ j < n => Processed(r, j)
        /\ \A i \in 1..Len(events[r]) :
              /\ events[r][i].type = "package" => NthText(events[r], 1) \in 1..(i - 1)
              /\ events[r][i].type \in {"complete", "error"} =>
                    \A k \in (i + 1)..Len(events[r]) : events[r][k].type = "error"
        /\ pc[r] \in {"text", "package"} =>
              tagBuffer[r] = C11_BufferAfter(chunks[r], last - 1)
        /\ pc[r] = "next" => tagBuffer[r] = C11_BufferAfter(chunks[r], last)

C11_EventsKeepChunkOrder == \A r \in Requests : C11_InChunkOrder(r)

\* C11 as stated: every chunk read from the provider has its text event on
\* the finished stream.  It fails for the chunk whose write was rejected.
C11_OneTextEventPerChunk ==
    \A r \in Requests :
        pc[r] = "done" => C11_TextWritten(r) = Len(chunks[r])

\* a tag split over chunks 1 and 2 and two tags, one of them for the same
\* name, in chunk 3: one package event behind the second text event and one
\* behind the third
C11_Witness ==
    \E r \in Requests :
        /\ Len(chunks[r]) = 3 /\ Processed(r, 3)
        /\ C11_TextWritten(r) = 3
        /\ NamesOf(WindowOf(events[r], 1)) = <<>>
        /\ NamesOf(WindowOf(events[r], 2)) = <<LeftPad>>
        /\ NamesOf(WindowOf(events[r], 3)) = <<React>>
        /\ Len(ScanNames(tagBuffer[r])) = 3

(***************************************************************************)
(* C12, as amended: when a conversation-state object with a message list   *)
(* exists and the complete event of a request was written, the request     *)
(* appends exactly two messages in one step: a user message with the       *)
(* prompt, editType 'edit' iff isEdit, and the packages found, then an     *)
(* assistant message with the full response and the same packages, and     *)
(* sets lastUpdated.  A request appends nothing before its complete event  *)
(* is written, never more than two messages, and none when its stream      *)
(* ended with an error or the write of the complete event was rejected.    *)
(***************************************************************************)
C12_Usable ==
    conversationState.t = "object" /\ conversationState.context.t = "object"

C12_Messages == IF C12_Usable THEN conversationState.context.messages ELSE <<>>

C12_CompleteWritten(r) == OfType(events[r], "complete") # {}

\* the requests that went through the update of a usable object
C12_Appenders ==
    {r \in Requests : C12_Usable /\ C12_CompleteWritten(r)
                                  /\ pc[r] \in {"finally", "done"}}

\* messages k and k+1 are the pair of request r
C12_PairOf(msgs, k, r) ==
    /\ msgs[k].role = "user"
    /\ msgs[k].content = request[r].prompt.v
    /\ msgs[k].metadata =
          [editType |-> IF request[r].isEdit = Bool(TRUE) THEN "edit" ELSE "generate",
           addedPackages |-> NamesOf(events[r])]
    /\ msgs[k + 1].role = "assistant"
    /\ msgs[k + 1].content = TextOf(events[r])
    /\ msgs[k + 1].metadata = [addedPackages |-> NamesOf(events[r])]

C12_State ==
    /\ Len(C12_Messages) = 2 * Cardinality(C12_Appenders)
    /\ \A k \in 1..Len(C12_Messages) :
          k % 2 = 1 => /\ \E r \in C12_Appenders : C12_PairOf(C12_Messages, k, r)
                       /\ C12_Messages[k].timestamp <= conversationState.lastUpdated
                       /\ C12_Messages[k + 1].timestamp <= conversationState.lastUpdated
    /\ \A r \in Requests :
          (provider[r] = "failed" \/ OfType(events[r], "error") # {}
             \/ ~C12_CompleteWritten(r)) => r \notin C12_Appenders

C12_Step ==
    \/ C12_Messages' = C12_Messages /\ conversationState' = conversationState
    \/ \E r \in Requests :
          /\ pc[r] = "update" /\ pc'[r] = "finally"
          /\ C12_CompleteWritten(r)
          /\ Len(C12_Messages') = Len(C12_Messages) + 2
          /\ IsPrefix(C12_Messages, C12_Messages')
          /\ C12_PairOf(C12_Messages', Len(C12_Messages) + 1, r)
          /\ conversationState'.lastUpdated >= conversationState.lastUpdated

C12_TwoAppendsAfterComplete == []C12_State /\ [][C12_Step]_vars

\* C12 as stated: whenever the provider's stream was exhausted and a
\* conversation-state object exists, the finished request has appended its
\* two messages.  It fails when the write of the complete event was rejected.
C12_TwoAppendsAtExhaustion ==
    \A r \in Requests :
        (provider[r] = "exhausted" /\ pc[r] = "done" /\ C12_Usable)
            => Len(C12_Messages) >= 2

\* an edit request whose stream named packages has appended its two messages
C12_Witness ==
    \E r \in Requests :
        /\ pc[r] = "done" /\ r \in C12_Appenders
        /\ Len(C12_Messages) = 2
        /\ C12_Messages[1].metadata.editType = "edit"
        /\ Len(C12_Messages[1].metadata.addedPackages) >= 2
        /\ C12_Messages[2].content # <<>>
        /\ conversationState.lastUpdated > 0

(***************************************************************************)
(* C13, as amended: when the conversation state is null it stays null, it  *)
(* is neither created nor mutated by any step; and a request whose         *)
(* provider stream was exhausted and whose writes were all accepted ends   *)
(* with the complete event as its last event, no error event, and the      *)
(* writer closed.  When the client has cancelled, the complete event is    *)
(* not written and close() rejects.                                        *)
(***************************************************************************)
C13_StaysNull == conversationState = Null => conversationState' = Null

C13_Finished(r) ==
    provider[r] = "exhausted" /\ pc[r] = "done" /\ conversationState = Null

C13_State ==
    \A r \in Requests :
        /\ (C13_Finished(r) /\ writer[r] # "errored") =>
              /\ writer[r] = "closed"
              /\ OfType(events[r], "complete") = {Len(events[r])}
              /\ OfType(events[r], "error") = {}
        /\ (C13_Finished(r) /\ writer[r] = "errored") =>
              /\ reader[r] = "cancelled"
              /\ OfType(events[r], "error") = {}
        /\ (conversationState = Null /\ pc[r] = "update") => caught[r] = "none"

C13_NullStateLeftAlone == []C13_State /\ [][C13_StaysNull]_vars

\* C13 as stated: with the conversation state null, every request whose
\* provider stream was exhausted has emitted complete and closed its stream.
\* It fails when the client cancelled before the complete event was written.
C13_CompleteWheneverExhausted ==
    \A r \in Requests :
        C13_Finished(r) =>
            /\ OfType(events[r], "complete") # {}
            /\ writer[r] = "closed"

\* two chunks and a package, then complete and a closed writer, the state null
C13_Witness ==
    \E r \in Requests :
        /\ C13_Finished(r)
        /\ writer[r] = "closed"
        /\ Len(chunks[r]) = 2
        /\ packagesToInstall[r] # <<>>
        /\ events[r][Len(events[r])].type = "complete"

(***************************************************************************)
(* C14, as amended: with two requests in flight against one conversation   *)
(* state, the appends interleave by pairs only.  The user message and the  *)
(* assistant message of a request are appended in one step, with no await  *)
(* between the two pushes, so they are always adjacent and no message of   *)
(* another request sits between them; the pairs of the two requests stand  *)
(* in the order in which the requests reached their update.                *)
(***************************************************************************)
\* message k is the user message of request a, and what follows it is a
\* message of another request b where the assistant message of a should be
C14_Between(msgs, k, a, b) ==
    /\ a # b
    /\ pc[a] # "idle" /\ pc[b] # "idle"
    /\ k + 1 <= Len(msgs)
    /\ msgs[k].role = "user"
    /\ msgs[k].content = request[a].prompt.v
    /\ request[b].prompt.v # request[a].prompt.v
    /\ \/ msgs[k + 1].role = "user" /\ msgs[k + 1].content = request[b].prompt.v
       \/ msgs[k + 1].role = "assistant" /\ msgs[k + 1].content # TextOf(events[a])

C14_Interleaved ==
    \E a, b \in Requests : \E k \in 1..Len(C12_Messages) :
        C14_Between(C12_Messages, k, a, b)

C14_Adjacent ==
    /\ ~C14_Interleaved
    /\ Len(C12_Messages) % 2 = 0
    /\ \A k \in 1..Len(C12_Messages) :
          k % 2 = 1 =>
             /\ C12_Messages[k].role = "user"
             /\ C12_Messages[k + 1].role = "assistant"
             /\ \E r \in Requests :
                   /\ pc[r] \in {"finally", "done"}
                   /\ C12_Messages[k].content = request[r].prompt.v
                   /\ C12_Messages[k + 1].content = TextOf(events[r])

\* a step that appends appends the two messages of one request
C14_PairStep ==
    \/ C12_Messages' = C12_Messages
    \/ \E r \in Requests :
          /\ pc[r] = "update"
          /\ \A q \in Requests \ {r} : pc'[q] = pc[q]
          /\ Len(C12_Messages') = Len(C12_Messages) + 2
          /\ IsPrefix(C12_Messages, C12_Messages')

C14_AppendsInterleaveByPairs == []C14_Adjacent /\ [][C14_PairStep]_vars

\* two requests with different prompts have both written complete and are
\* both about to append to the same object
C14_BothAboutToAppend ==
    /\ C12_Usable
    /\ \E a, b \in Requests :
          /\ a # b
          /\ pc[a] = "update" /\ pc[b] = "update"
          /\ request[a].prompt # request[b].prompt

\* C14 as stated: from two requests about to append, the run reaches a state
\* in which a message of one request sits between the user message and the
\* assistant message of the other
C14_AppendsInterleave == C14_BothAboutToAppend ~> C14_Interleaved

\* both requests had written complete and were about to append; the second
\* has appended its pair first, the first is still at its update
C14_Witness ==
    /\ pc[1] = "update" /\ pc[2] = "finally"
    /\ request[1].prompt # request[2].prompt
    /\ Len(C12_Messages) = 2
    /\ C12_Messages[1].content = request[2].prompt.v
    /\ C12_Messages[2].content = TextOf(events[2])
    /\ chunks[1] # <<>> /\ chunks[2] # <<>>

(***************************************************************************)
(* C19: the ids of the messages appended to the conversation state are     *)
(* pairwise distinct, within one request and across requests, also when    *)
(* requests finish within the same or adjacent clock milliseconds.         *)
(***************************************************************************)
C19_IdsDistinct ==
    \A i, j \in 1..Len(C12_Messages) :
        C12_Messages[i].id = C12_Messages[j].id => i = j

(***************************************************************************)
(* C15: after every buffer update, whatever the lengths of the chunks, the *)
(* rolling tag buffer is at most 100 characters long: it is the last 100   *)
(* characters of the buffer before the update followed by the chunk, or    *)
(* all of them when they are fewer.                                        *)
(***************************************************************************)
C15_Bounded == \A r \in Requests : Len(tagBuffer[r]) <= BufferLimit

C15_Update ==
    \A r \in Requests :
        tagBuffer'[r] # tagBuffer[r] =>
            LET before == tagBuffer[r] \o text[r]
                n == Len(tagBuffer'[r])
            IN  /\ n = IF Len(before) < BufferLimit THEN Len(before) ELSE BufferLimit
                /\ \A k \in 1..n : tagBuffer'[r][k] = before[Len(before) - n + k]

C15_BufferAtMostLimit == []C15_Bounded /\ [][C15_Update]_vars

\* a chunk of more than 100 characters, then a shorter one: the buffer was
\* full before the second update and is full after it
C15_Witness ==
    \E r \in Requests :
        /\ Len(chunks[r]) = 2 /\ pc[r] = "next"
        /\ Len(chunks[r][1]) > BufferLimit
        /\ Len(chunks[r][2]) \in 1..(BufferLimit - 1)
        /\ Len(tagBuffer[r]) = BufferLimit
        /\ tagBuffer[r][BufferLimit] = chunks[r][2][Len(chunks[r][2])]

(***************************************************************************)
(* C16, as amended: a package tag split over two consecutive chunks is not *)
(* detected when more than 100 of its characters are in the earlier chunk: *)
(* the scan of the later chunk emits no package event for its name, and    *)
(* the name enters the package set, and so the complete event, only        *)
(* through another occurrence of the tag with at most 100 characters in    *)
(* the earlier chunk.  A tag of more than 100 characters with at most 100  *)
(* of them in the earlier chunk is detected.                               *)
(***************************************************************************)
C16_LongTags == {k \in 1..Len(SplitTags) : Len(SplitTags[k]) > BufferLimit}

\* chunks j-1 and j carry tag k, more than 100 of its characters in chunk j-1
C16_SplitBeyondWindow(r, j, k) ==
    \E i \in (BufferLimit + 1)..(Len(SplitTags[k]) - 1) :
        C3_SplitAt(r, j, SplitTags[k], i)

C16_SplitWithinWindow(r, j, k) ==
    \E i \in 1..BufferLimit :
        i < Len(SplitTags[k]) /\ C3_SplitAt(r, j, SplitTags[k], i)

C16_WideSplitNotDetected ==
    \A r \in Requests : \A k \in C16_LongTags :
        /\ \A j \in 2..Len(chunks[r]) :
              (Processed(r, j) /\ C16_SplitBeyondWindow(r, j, k)) =>
                  ~Contains(NamesOf(WindowOf(events[r], j)), C3_NameOfTag(SplitTags[k]))
        /\ Contains(packagesToInstall[r], C3_NameOfTag(SplitTags[k])) =>
              \E j \in 2..Len(chunks[r]) : C16_SplitWithinWindow(r, j, k)
        /\ \A e \in OfType(events[r], "complete") :
              events[r][e].packages = NamesOf(events[r])

\* C16 as stated: every tag of more than 100 characters that is split over
\* two chunks goes undetected.  It fails when at most 100 of its characters
\* are in the earlier chunk.
C16_LongSplitTagNotDetected ==
    \A r \in Requests : \A k \in C16_LongTags : \A j \in 2..Len(chunks[r]) :
        ( /\ Processed(r, j)
          /\ \E i \in 1..(Len(SplitTags[k]) - 1) : C3_SplitAt(r, j, SplitTags[k], i) )
        => ~Contains(NamesOf(events[r]), C3_NameOfTag(SplitTags[k]))

\* the long tag with 101 characters in the first chunk and the rest in the
\* second: the complete event names no package
C16_Witness ==
    \E r \in Requests :
        /\ Len(chunks[r]) = 2
        /\ C3_SplitAt(r, 2, SplitTags[2], BufferLimit + 1)
        /\ OfType(events[r], "complete") # {}
        /\ events[r][Len(events[r])].type = "complete"
        /\ events[r][Len(events[r])].packages = <<>>
        /\ OfType(events[r], "package") = {}

(***************************************************************************)
(* C17: the complete event is terminal: no event of any type follows it,   *)
(* no stream holds both a complete and an error event, also when the       *)
(* update of the conversation state that follows the complete event fails. *)
(***************************************************************************)
C17_CompleteIsTerminal ==
    \A r \in Requests :
        /\ \A i \in OfType(events[r], "complete") : i = Len(events[r])
        /\ OfType(events[r], "complete") = {} \/ OfType(events[r], "error") = {}

(***************************************************************************)
(* C18: the packages of the complete event are the names of the package    *)
(* events emitted on the stream, in emission order, none twice; each name  *)
(* is non-empty and neither begins nor ends with white space.              *)
(***************************************************************************)
C18_Clean(name) ==
    /\ Len(name) > 0
    /\ name[1] \notin WhiteSpace
    /\ name[Len(name)] \notin WhiteSpace

C18_PackagesAreTheEmittedNames ==
    \A r \in Requests : \A i \in OfType(events[r], "complete") :
        /\ events[r][i].packages = NamesOf(SubSeq(events[r], 1, i - 1))
        /\ events[r][i].packages = NamesOf(events[r])
        /\ NoDuplicates(events[r][i].packages)
        /\ \A k \in 1..Len(events[r][i].packages) : C18_Clean(events[r][i].packages[k])

\* two blocks, the second with stray separators, a repeated name and a new
\* one: the complete event lists the four names in the order of their events
C18_Witness ==
    \E r \in Requests :
        /\ chunks[r] = <<Block(BlockBody), Block(MessyBody)>>
        /\ OfType(events[r], "complete") = {Len(events[r])}
        /\ events[r][Len(events[r])].packages = <<React, Lodash, Moment, LeftPad>>
        /\ Cardinality(OfType(events[r], "package")) = 4

====
